---------------------------- MODULE Spec2Model ----------------------------
(***************************************************************************)
(* A model of colortool/skybox_analyzer.py: the filename parser, the two   *)
(* pixel samplers, the brightness analyzer, the per-image analysis, the    *)
(* report builder and main's batch loop.                                   *)
(*                                                                         *)
(* Text is a sequence of one-character strings.  Numbers the code keeps as *)
(* rounded floats are kept as integers in the unit of the last decimal     *)
(* kept: round(x, 3) is an integer number of thousandths, round(x, 2) an   *)
(* integer number of hundredths.                                           *)
(*                                                                         *)
(* Three specifications share the module:                                  *)
(*   SpecParse     parse_orientation_hour_from_filename on bounded names   *)
(*   SpecSampler   analyze_vertical_gradient / analyze_sky_zones on        *)
(*                 bounded images                                          *)
(*   Spec          main over a batch of files, run twice on the same input *)
(***************************************************************************)
EXTENDS Integers, Sequences, FiniteSets

VARIABLES
    \* SpecParse
    p_filename,     \* the argument of parse_orientation_hour_from_filename
    p_called,       \* whether it has been called
    p_result,       \* what it returned
    \* SpecSampler
    g_img,          \* the image handed to the samplers
    g_num_samples,  \* analyze_vertical_gradient's num_samples
    g_call,         \* "none", "gradient" or "zones": which sampler has run
    g_colors,       \* analyze_vertical_gradient's return value
    g_zones,        \* analyze_sky_zones's return value
    g_reads,        \* the (x, y) handed to img.getpixel, in call order
    \* Spec
    usable,         \* FALSE: no argument and no Screenshots directory
    image_files,    \* main's image_files after the arguments are resolved
    pc,             \* main's position
    idx,            \* position of the for loop in image_files (1-based)
    all_analyses,   \* main's all_analyses
    handles,        \* indices of image_files whose file handle is open
    report,         \* what this run wrote to skybox_analysis_report.json
    godot_data,     \* what this run wrote to skybox_colors_godot.json
    exit_status,    \* the process's exit status, or Running
    run,            \* 1: first run, 2: second run over the same input
    prev            \* the first run's outputs, once the second has started

parseVars == <<p_filename, p_called, p_result>>
samplerVars == <<g_img, g_num_samples, g_call, g_colors, g_zones, g_reads>>
mainVars == <<usable, image_files, pc, idx, all_analyses, handles, report,
              godot_data, exit_status, run, prev>>
vars == <<parseVars, samplerVars, mainVars>>

\* (None, None); None's hour is written -1
NoMatch == [orientation |-> "None", hour |-> -1]

\* exit_status of a process that has not exited
Running == -1

\* An output file this run has not written
NotWritten == [written |-> FALSE]

\* prev before the second run
NoPrev == [started |-> FALSE]

\* The values a specification gives the variables it does not use.
IdleParse == p_filename = <<>> /\ p_called = FALSE /\ p_result = NoMatch

IdleSampler ==
    /\ g_img = [mode |-> "RGB", width |-> 1, height |-> 1,
                top |-> <<0, 0, 0>>, step |-> <<0, 0, 0>>]
    /\ g_num_samples = 1
    /\ g_call = "none"
    /\ g_colors = <<>>
    /\ g_zones = <<>>
    /\ g_reads = <<>>

IdleMain ==
    /\ usable = FALSE
    /\ image_files = <<>>
    /\ pc = "idle"
    /\ idx = 0
    /\ all_analyses = <<>>
    /\ handles = {}
    /\ report = NotWritten
    /\ godot_data = NotWritten
    /\ exit_status = Running
    /\ run = 1
    /\ prev = NoPrev

-----------------------------------------------------------------------------
(* Bounds.                                                                 *)

MaxNameLen == 5     \* longest filename of SpecParse
MaxWidth == 2       \* widest image of SpecSampler
MaxHeight == 12     \* tallest image of SpecSampler
MaxSamples == 10    \* largest num_samples of SpecSampler
MaxFiles == 3       \* longest batch of Spec

-----------------------------------------------------------------------------
(* Text.                                                                   *)

LF == "\n"

\* The characters SpecParse builds filenames from.
Alphabet == {"E", "u", "X", "1", "2", "4", ".", LF}

DigitChars == <<"0", "1", "2", "3", "4", "5", "6", "7", "8", "9">>
HexChars == DigitChars \o <<"a", "b", "c", "d", "e", "f">>

IsDigit(c) == \E d \in 1..10 : DigitChars[d] = c

\* int() of one decimal digit
DigitValue(c) == (CHOOSE d \in 1..10 : DigitChars[d] = c) - 1

\* str.upper() of one character, on the letters the model uses
UpperChar(c) ==
    CASE c = "w" -> "W" [] c = "e" -> "E" [] c = "n" -> "N"
      [] c = "s" -> "S" [] c = "u" -> "U" [] c = "x" -> "X"
      [] c = "p" -> "P" [] c = "j" -> "J" [] OTHER -> c

Upper(s) == [k \in 1..Len(s) |-> UpperChar(s[k])]

\* str.rfind('.'), 0-based, -1 when absent
RFindDot(s) ==
    IF \E k \in 1..Len(s) : s[k] = "."
    THEN (CHOOSE k \in 1..Len(s) :
             s[k] = "." /\ \A j \in (k+1)..Len(s) : s[j] # ".") - 1
    ELSE -1

\* Path(filename).stem for a filename without directory separators: the name
\* up to its last dot, when that dot is neither the first nor the last
\* character; the path "." has the empty name.
PathStem(filename) ==
    LET i == RFindDot(filename) IN
    IF filename = <<".">> THEN <<>>
    ELSE IF 0 < i /\ i < Len(filename) - 1 THEN SubSeq(filename, 1, i)
    ELSE filename

-----------------------------------------------------------------------------
(* Filename parser.                                                        *)

ORIENTATIONS == <<"W", "E", "N", "S", "U">>

\* re.match(r'^([WENSU])(\d{2})$', name): without re.MULTILINE, $ matches at
\* the end of the string and also just before a newline that ends the string.
RegexMatches(name) ==
    /\ Len(name) \in {3, 4}
    /\ name[1] \in {"W", "E", "N", "S", "U"}
    /\ IsDigit(name[2])
    /\ IsDigit(name[3])
    /\ Len(name) = 4 => name[4] = LF

parse_orientation_hour_from_filename(filename) ==
    LET name == Upper(PathStem(filename)) IN
    IF RegexMatches(name)
    THEN LET hour == 10 * DigitValue(name[2]) + DigitValue(name[3]) IN
         IF 0 <= hour /\ hour <= 23
         THEN [orientation |-> name[1], hour |-> hour]
         ELSE NoMatch
    ELSE NoMatch

-----------------------------------------------------------------------------
(* Arithmetic the code does in floating point.                             *)

Min(a, b) == IF a <= b THEN a ELSE b

\* round(num / den, k) in units of 10^-k, for num >= 0 and den > 0 already
\* scaled by 10^k: the nearest integer, a tie going to the even one.  (A
\* float tie is decided by the double's exact value; none of the quotients
\* the model forms is a tie unless it is exactly representable.)
RoundDiv(num, den) ==
    LET q == num \div den
        r == num % den
    IN  IF 2 * r < den THEN q
        ELSE IF 2 * r > den THEN q + 1
        ELSE IF q % 2 = 0 THEN q ELSE q + 1

\* f"{v:02x}" for 0 <= v <= 255
Hex2(v) == <<HexChars[(v \div 16) + 1], HexChars[(v % 16) + 1]>>

rgb_to_hex(r, g, b) == <<"#">> \o Hex2(r) \o Hex2(g) \o Hex2(b)

\* each channel is round(c / 255.0, 3), in thousandths
rgb_to_godot(r, g, b) ==
    [r |-> RoundDiv(1000 * r, 255),
     g |-> RoundDiv(1000 * g, 255),
     b |-> RoundDiv(1000 * b, 255)]

-----------------------------------------------------------------------------
(* Images.  An image is [mode, width, height, top, step]: every pixel of   *)
(* row y has channel k equal to (top[k] + y * step[k]) % 256, so rows      *)
(* differ when step is not zero.  Image.open only returns images with      *)
(* width >= 1 and height >= 1.                                             *)
(* Modes: "RGB" (3-tuples), "RGBA" (4-tuples), "LA" (2-tuples), "L" (a     *)
(* bare integer per pixel).                                                *)

Channel(img, k, y) == (img.top[k] + y * img.step[k]) % 256

\* What getpixel returns for a pixel inside the image.  is_tuple is FALSE
\* for modes whose pixel value is a bare number.
PixelValue(img, y) ==
    CASE img.mode = "RGB" ->
           [is_tuple |-> TRUE,
            ch |-> <<Channel(img, 1, y), Channel(img, 2, y), Channel(img, 3, y)>>]
      [] img.mode = "RGBA" ->
           [is_tuple |-> TRUE,
            ch |-> <<Channel(img, 1, y), Channel(img, 2, y), Channel(img, 3, y), 255>>]
      [] img.mode = "LA" ->
           [is_tuple |-> TRUE, ch |-> <<Channel(img, 1, y), 255>>]
      [] OTHER ->
           [is_tuple |-> FALSE, ch |-> <<Channel(img, 1, y)>>]

\* img.getpixel((x, y)): a negative coordinate counts from the far edge; a
\* coordinate outside the image raises IndexError.
getpixel(img, x, y) ==
    LET xx == IF x < 0 THEN img.width + x ELSE x
        yy == IF y < 0 THEN img.height + y ELSE y
    IN  IF xx < 0 \/ xx >= img.width \/ yy < 0 \/ yy >= img.height
        THEN [raised |-> TRUE]
        ELSE [raised |-> FALSE, value |-> PixelValue(img, yy)]

Omitted == [ok |-> FALSE]

\* The statement  r, g, b = pixel[:3] if len(pixel) >= 3 else (pixel, pixel, pixel)
\* len() of a bare number raises TypeError; a tuple shorter than 3 is
\* replicated whole, so r, g and b are tuples, not numbers.
UnpackRGB(got) ==
    IF got.raised THEN [raised |-> TRUE]
    ELSE IF ~got.value.is_tuple THEN [raised |-> TRUE]
    ELSE IF Len(got.value.ch) >= 3
         THEN [raised |-> FALSE, numeric |-> TRUE,
               r |-> got.value.ch[1], g |-> got.value.ch[2], b |-> got.value.ch[3]]
         ELSE [raised |-> FALSE, numeric |-> FALSE]

\* The color record both samplers build; formatting a tuple with :02x
\* raises TypeError.
ColorRecord(u) ==
    IF u.raised \/ ~u.numeric THEN Omitted
    ELSE [ok |-> TRUE,
          rgb |-> [r |-> u.r, g |-> u.g, b |-> u.b],
          hex |-> rgb_to_hex(u.r, u.g, u.b),
          godot |-> rgb_to_godot(u.r, u.g, u.b)]

-----------------------------------------------------------------------------
(* Vertical gradient sampler.                                              *)

GradientY_NoClamp(height, i, num_samples) ==
    IF num_samples > 1 THEN (height * i) \div (num_samples - 1)
    ELSE height \div 2

\* y of sample i: int((height * i) / (num_samples - 1)), or height // 2 when
\* num_samples is 1; then min(y, height - 1).  (The float quotient truncates
\* to the integer quotient for every height an image can have.)
GradientY(height, i, num_samples) ==
    Min(IF num_samples > 1 THEN (height * i) \div (num_samples - 1)
        ELSE height \div 2,
        height - 1)

\* The body of the try block for sample i: the pixel read, the unpacking and
\* the record; 'position' divides by num_samples - 1 (ZeroDivisionError when
\* num_samples is 1).  Any exception leaves the sample out.
GradientSample(img, i, num_samples) ==
    LET x == img.width \div 2
        y == GradientY(img.height, i, num_samples)
        u == UnpackRGB(getpixel(img, x, y))
        c == ColorRecord(u)
    IN  IF u.raised THEN Omitted
        ELSE IF num_samples - 1 = 0 THEN Omitted
        ELSE IF ~c.ok THEN Omitted
        ELSE [ok |-> TRUE,
              position |-> RoundDiv(100 * i, num_samples - 1),
              rgb |-> c.rgb, hex |-> c.hex, godot |-> c.godot]

\* The (x, y) analyze_vertical_gradient hands to getpixel, sample 0 first.
GradientReads(img, num_samples) ==
    [k \in 1..num_samples |->
        <<img.width \div 2, GradientY(img.height, k - 1, num_samples)>>]

Kept(s) == s.ok

\* a result record without its raised mark
WithoutRaised(s) == [f \in DOMAIN s \ {"raised"} |-> s[f]]

WithoutOk(s) == [f \in DOMAIN s \ {"ok"} |-> s[f]]

\* colors: the samples that were not left out, in loop order.
analyze_vertical_gradient(img, num_samples) ==
    LET all == [k \in 1..num_samples |-> GradientSample(img, k - 1, num_samples)]
        kept == SelectSeq(all, Kept)
    IN  [k \in 1..Len(kept) |-> WithoutOk(kept[k])]

-----------------------------------------------------------------------------
(* Sky zone sampler.                                                       *)

ZoneNames == <<"zenith", "upper_sky", "mid_sky", "lower_sky", "horizon", "water_line">>

\* zones: y_percent, in hundredths
ZonePercent ==
    [z \in {ZoneNames[k] : k \in 1..6} |->
        CASE z = "zenith" -> 5 [] z = "upper_sky" -> 25 [] z = "mid_sky" -> 50
          [] z = "lower_sky" -> 75 [] z = "horizon" -> 90 [] OTHER -> 95]

\* min(int(height * y_percent), height - 1)
ZoneY(height, zone_name) == Min((height * ZonePercent[zone_name]) \div 100, height - 1)

ZoneSample(img, zone_name) ==
    ColorRecord(UnpackRGB(getpixel(img, img.width \div 2, ZoneY(img.height, zone_name))))

ZoneReads(img) ==
    [k \in 1..6 |-> <<img.width \div 2, ZoneY(img.height, ZoneNames[k])>>]

\* zone_colors: a function from the zones that were not left out
analyze_sky_zones(img) ==
    LET present == {z \in DOMAIN ZonePercent : ZoneSample(img, z).ok}
    IN  [z \in present |-> WithoutOk(ZoneSample(img, z))]

-----------------------------------------------------------------------------
(* Brightness analyzer.                                                    *)

\* Row j (0..99) of img.resize((100, 100)).  The resampling filter belongs
\* to the imaging library; the model takes output row j from source row
\* floor(j * height / 100), which is exact for an image of one color.  Each
\* output row holds 100 equal pixels.
ResizedRow(img, j) == PixelValue(img, (j * img.height) \div 100)

\* 0.299 * r + 0.587 * g + 0.114 * b in thousandths, or nothing for a pixel
\* with fewer than 3 channels
LumaMilli(pixel) ==
    IF Len(pixel.ch) >= 3
    THEN 299 * pixel.ch[1] + 587 * pixel.ch[2] + 114 * pixel.ch[3]
    ELSE 0

\* How many of the 100 output rows j have floor(j * height / 100) = y
RowsFrom(img, y) ==
    (100 * (y + 1) + img.height - 1) \div img.height
        - (100 * y + img.height - 1) \div img.height

RECURSIVE LumaRows(_, _)
\* total, in thousandths, over the output rows that come from source rows
\* 0..y-1, counting each output row once
LumaRows(img, y) ==
    IF y = 0 THEN 0
    ELSE LumaRows(img, y - 1) + RowsFrom(img, y - 1) * LumaMilli(PixelValue(img, y - 1))

\* len(pixel) of a bare number raises TypeError, outside any try block.
\* avg = total / len(pixels): the 100 pixels of a row cancel, so avg in
\* thousandths is LumaRows / 100.
analyze_brightness(img) ==
    IF ~ResizedRow(img, 0).is_tuple THEN [raised |-> TRUE]
    ELSE LET total == LumaRows(img, img.height) IN
         [raised |-> FALSE,
          average |-> RoundDiv(total, 1000),
          normalized |-> RoundDiv(total, 100 * 255),
          is_dark |-> total < 85 * 100000,
          is_bright |-> total > 170 * 100000]

-----------------------------------------------------------------------------
(* Per-image analysis.                                                     *)

\* f"{hour:02d}:00"
TimeString(hour) ==
    <<DigitChars[(hour \div 10) + 1], DigitChars[(hour % 10) + 1], ":", "0", "0">>

\* analyze_image on an input file [name, decodable, img].  outcome is
\*   "raised"  Image.open or analyze_brightness raised
\*   "skip"    the name did not parse: None is returned
\*   "ok"      the analysis is returned
\* closed tells whether the image's file handle was closed by the time the
\* call ended: a failed Image.open closes it, and so does the first pixel
\* read (the library closes the file once the pixels are loaded); nothing in
\* analyze_image closes it.
analyze_image(file) ==
    LET parsed == parse_orientation_hour_from_filename(file.name)
        img == file.img
        brightness == analyze_brightness(img)
    IN  IF ~file.decodable THEN [outcome |-> "raised", closed |-> TRUE]
        ELSE IF parsed = NoMatch THEN [outcome |-> "skip", closed |-> FALSE]
        ELSE IF brightness.raised THEN [outcome |-> "raised", closed |-> TRUE]
        ELSE [outcome |-> "ok", closed |-> TRUE,
              analysis |->
                [filename |-> file.name,
                 orientation |-> parsed.orientation,
                 hour |-> parsed.hour,
                 time |-> TimeString(parsed.hour),
                 dimensions |-> [width |-> img.width, height |-> img.height],
                 vertical_gradient |-> analyze_vertical_gradient(img, 10),
                 sky_zones |-> analyze_sky_zones(img),
                 brightness |-> WithoutRaised(brightness)]]

-----------------------------------------------------------------------------
(* Report builder.                                                         *)

\* {} in the export
EmptyRecord == [k \in {} |-> 0]

\* analysis['sky_zones'].get(zone, {}).get('godot', {})
ZoneGodot(analysis, zone) ==
    IF zone \in DOMAIN analysis.sky_zones
    THEN analysis.sky_zones[zone].godot
    ELSE EmptyRecord

build_godot_entry_UpperFromMidSky(analysis) ==
    [orientation |-> analysis.orientation,
     hour |-> analysis.hour,
     time |-> analysis.time,
     colors |-> [zenith |-> ZoneGodot(analysis, "zenith"),
                 upper |-> ZoneGodot(analysis, "mid_sky"),
                 middle |-> ZoneGodot(analysis, "mid_sky"),
                 lower |-> ZoneGodot(analysis, "lower_sky"),
                 horizon |-> ZoneGodot(analysis, "horizon"),
                 water |-> ZoneGodot(analysis, "water_line")],
     brightness |-> analysis.brightness.normalized]

build_godot_entry(analysis) ==
    [orientation |-> analysis.orientation,
     hour |-> analysis.hour,
     time |-> analysis.time,
     colors |-> [zenith |-> ZoneGodot(analysis, "zenith"),
                 upper |-> ZoneGodot(analysis, "upper_sky"),
                 middle |-> ZoneGodot(analysis, "mid_sky"),
                 lower |-> ZoneGodot(analysis, "lower_sky"),
                 horizon |-> ZoneGodot(analysis, "horizon"),
                 water |-> ZoneGodot(analysis, "water_line")],
     brightness |-> analysis.brightness.normalized]

\* ord() of an orientation letter: strings of one character compare by it
Ord(c) ==
    CASE c = "E" -> 69 [] c = "N" -> 78 [] c = "S" -> 83
      [] c = "U" -> 85 [] c = "W" -> 87 [] OTHER -> 0

KeyLess_OrientationOnly(a, b) == Ord(a.orientation) < Ord(b.orientation)

\* (a['orientation'], a['hour']) < (b['orientation'], b['hour'])
KeyLess(a, b) ==
    \/ Ord(a.orientation) < Ord(b.orientation)
    \/ Ord(a.orientation) = Ord(b.orientation) /\ a.hour < b.hour

\* One step of a stable sort: a goes after every element not greater than it.
Insert(sorted_seq, a) ==
    LET n == Cardinality({k \in 1..Len(sorted_seq) : ~KeyLess(a, sorted_seq[k])})
    IN  SubSeq(sorted_seq, 1, n) \o <<a>> \o SubSeq(sorted_seq, n + 1, Len(sorted_seq))

RECURSIVE sorted(_)
\* sorted(all_analyses, key=lambda x: (x['orientation'], x['hour']))
sorted(analyses) ==
    IF analyses = <<>> THEN <<>>
    ELSE Insert(sorted(SubSeq(analyses, 1, Len(analyses) - 1)), analyses[Len(analyses)])

\* The orders list({a['orientation'] for a in all_analyses}) can come out in:
\* a set of strings iterates in hash order, and str hashes are salted anew
\* in every process.
OrientationLists(analyses) ==
    LET present == {analyses[k].orientation : k \in 1..Len(analyses)}
        n == Cardinality(present)
    IN  {l \in [1..n -> present] : \A i, j \in 1..n : i # j => l[i] # l[j]}

\* The report generate_report dumps, given the order the set came out in.
ReportOf(analyses, orientations) ==
    [written |-> TRUE,
     summary |-> [total_images |-> Len(analyses),
                  orientations |-> orientations,
                  purpose |-> "Skybox color extraction by orientation and hour"],
     analyses |-> sorted(analyses)]

\* godot_data as dumped
GodotDataOf(analyses) ==
    LET sorted_analyses == sorted(analyses) IN
    [written |-> TRUE,
     entries |-> [k \in 1..Len(analyses) |-> build_godot_entry(sorted_analyses[k])]]

-----------------------------------------------------------------------------
(* Input files of Spec.                                                    *)

Gradient20(mode, top, step) ==
    [mode |-> mode, width |-> 4, height |-> 20, top |-> top, step |-> step]

FileN06 == [name |-> <<"N", "0", "6", ".", "p">>, decodable |-> TRUE,
            img |-> Gradient20("RGB", <<10, 20, 30>>, <<7, 11, 13>>)]
FileE12 == [name |-> <<"E", "1", "2", ".", "p">>, decodable |-> TRUE,
            img |-> Gradient20("RGB", <<200, 150, 100>>, <<0, 0, 0>>)]
FileE01 == [name |-> <<"E", "0", "1", ".", "p">>, decodable |-> TRUE,
            img |-> Gradient20("RGBA", <<0, 0, 0>>, <<1, 2, 3>>)]
\* a name that does not parse
FileX99 == [name |-> <<"X", "9", "9", ".", "p">>, decodable |-> TRUE,
            img |-> Gradient20("RGB", <<5, 5, 5>>, <<0, 0, 0>>)]
\* two channels: every sample is left out, the analysis still succeeds
FileU06 == [name |-> <<"u", "0", "6", ".", "j">>, decodable |-> TRUE,
            img |-> Gradient20("LA", <<90, 0, 0>>, <<2, 0, 0>>)]
\* one channel: analyze_brightness raises
FileS23 == [name |-> <<"S", "2", "3", ".", "p">>, decodable |-> TRUE,
            img |-> Gradient20("L", <<40, 0, 0>>, <<3, 0, 0>>)]
\* not an image: Image.open raises
FileW00 == [name |-> <<"W", "0", "0", ".", "p">>, decodable |-> FALSE,
            img |-> Gradient20("RGB", <<0, 0, 0>>, <<0, 0, 0>>)]

Files == {FileN06, FileE12, FileE01, FileX99, FileU06, FileS23, FileW00}

Batches == UNION {[1..n -> Files] : n \in 0..MaxFiles}

-----------------------------------------------------------------------------
(* SpecParse: one call of parse_orientation_hour_from_filename.            *)

FileNames == UNION {[1..n -> Alphabet] : n \in 0..MaxNameLen}

InitParse ==
    /\ p_filename \in FileNames
    /\ p_called = FALSE
    /\ p_result = NoMatch
    /\ IdleSampler
    /\ IdleMain

CallParse ==
    /\ ~p_called
    /\ p_called' = TRUE
    /\ p_result' = parse_orientation_hour_from_filename(p_filename)
    /\ UNCHANGED <<p_filename, samplerVars, mainVars>>

NextParse == CallParse

SpecParse == InitParse /\ [][NextParse]_vars

-----------------------------------------------------------------------------
(* SpecSampler: one call of a sampler on one image.                        *)

Modes == {"RGB", "RGBA", "LA", "L"}

SamplerImages ==
    [mode : Modes, width : 1..MaxWidth, height : 1..MaxHeight,
     top : {<<10, 20, 30>>}, step : {<<0, 0, 0>>, <<7, 11, 13>>}]

InitSampler ==
    /\ g_img \in SamplerImages
    /\ g_num_samples \in 1..MaxSamples
    /\ g_call = "none"
    /\ g_colors = <<>>
    /\ g_zones = <<>>
    /\ g_reads = <<>>
    /\ IdleParse
    /\ IdleMain

CallVerticalGradient ==
    /\ g_call = "none"
    /\ g_call' = "gradient"
    /\ g_colors' = analyze_vertical_gradient(g_img, g_num_samples)
    /\ g_reads' = GradientReads(g_img, g_num_samples)
    /\ UNCHANGED <<g_img, g_num_samples, g_zones, parseVars, mainVars>>

CallSkyZones ==
    /\ g_call = "none"
    /\ g_call' = "zones"
    /\ g_zones' = analyze_sky_zones(g_img)
    /\ g_reads' = ZoneReads(g_img)
    /\ UNCHANGED <<g_img, g_num_samples, g_colors, parseVars, mainVars>>

NextSampler == CallVerticalGradient \/ CallSkyZones

SpecSampler == InitSampler /\ [][NextSampler]_vars

-----------------------------------------------------------------------------
(* Claims about the filename parser (SpecParse).                           *)

\* The claim's own reading of a stem: one of the five letters, then exactly
\* two digits, and nothing else.
IsLetterTwoDigits(s) ==
    /\ Len(s) = 3
    /\ \E k \in 1..5 : ORIENTATIONS[k] = s[1]
    /\ IsDigit(s[2])
    /\ IsDigit(s[3])

\* C1: the parser returns (orientation, hour) exactly when the upper-cased
\* stem is one letter of W, E, N, S, U followed by exactly two digits worth
\* 0..23, and then returns that letter and that number; every other filename
\* gives (None, None).
C1_ParserContract ==
    p_called =>
        LET s == Upper(PathStem(p_filename)) IN
        IF IsLetterTwoDigits(s) /\ 10 * DigitValue(s[2]) + DigitValue(s[3]) <= 23
        THEN p_result = [orientation |-> s[1],
                         hour |-> 10 * DigitValue(s[2]) + DigitValue(s[3])]
        ELSE p_result = NoMatch

-----------------------------------------------------------------------------
(* Claims about the samplers (SpecSampler).                                *)

ManyChannels(img) == img.mode \in {"RGB", "RGBA"}

Gray(v) == [r |-> v, g |-> v, b |-> v]

\* C7: a grayscale pixel value v still gives a sample, with r = g = b = v, in
\* both samplers; no sample is left out.  (The gradient half is stated for
\* num_samples >= 2.)
C7_GrayscaleBroadcast ==
    /\ (g_call = "gradient" /\ g_img.mode = "L" /\ g_num_samples >= 2) =>
          /\ Len(g_colors) = g_num_samples
          /\ \A k \in 1..Len(g_colors) :
                g_colors[k].rgb = Gray(Channel(g_img, 1, g_reads[k][2]))
    /\ (g_call = "zones" /\ g_img.mode = "L") =>
          /\ DOMAIN g_zones = {ZoneNames[k] : k \in 1..6}
          /\ \A k \in 1..6 :
                g_zones[ZoneNames[k]].rgb = Gray(Channel(g_img, 1, g_reads[k][2]))

\* C8: with num_samples = 1 the gradient sampler returns exactly one sample,
\* read at x = width // 2, y = height // 2.  (Stated for images with 3 or
\* more channels.)
C8_SingleSampleAtMidpoint ==
    (g_call = "gradient" /\ g_num_samples = 1 /\ ManyChannels(g_img)) =>
        /\ g_reads = << <<g_img.width \div 2, g_img.height \div 2>> >>
        /\ Len(g_colors) = 1

\* C10: for num_samples N >= 2, sample i is read at
\* y = min(floor(height * i / (N - 1)), height - 1); every y is in
\* 0..height-1, the y are non-decreasing, the first is 0 and the last is
\* height - 1; an image with 3 or more channels gives exactly N samples, in
\* that order.
C10_GradientPositions ==
    (g_call = "gradient" /\ g_num_samples >= 2) =>
        LET N == g_num_samples
            h == g_img.height
        IN  /\ Len(g_reads) = N
            /\ \A k \in 1..N :
                  /\ g_reads[k][2] =
                        (IF (h * (k - 1)) \div (N - 1) < h - 1
                         THEN (h * (k - 1)) \div (N - 1) ELSE h - 1)
                  /\ g_reads[k][2] \in 0..(h - 1)
            /\ \A k \in 1..(N - 1) : g_reads[k][2] <= g_reads[k + 1][2]
            /\ g_reads[1][2] = 0
            /\ g_reads[N][2] = h - 1
            /\ ManyChannels(g_img) =>
                  /\ Len(g_colors) = N
                  /\ \A k \in 1..N :
                        g_colors[k].rgb =
                            [r |-> Channel(g_img, 1, g_reads[k][2]),
                             g |-> Channel(g_img, 2, g_reads[k][2]),
                             b |-> Channel(g_img, 3, g_reads[k][2])]

C10_Witness ==
    /\ g_call = "gradient"
    /\ g_num_samples >= 3
    /\ g_img.height >= 3
    /\ g_img.mode = "RGBA"
    /\ g_img.step # <<0, 0, 0>>
    /\ Len(g_colors) = g_num_samples
    /\ g_colors[1].rgb # g_colors[g_num_samples].rgb

-----------------------------------------------------------------------------
(* Spec: main over a batch of files, then once more over the same batch.   *)

Init ==
    /\ \/ usable = FALSE /\ image_files = <<>>
       \/ usable = TRUE /\ image_files \in Batches
    /\ pc = "start"
    /\ idx = 0
    /\ all_analyses = <<>>
    /\ handles = {}
    /\ report = NotWritten
    /\ godot_data = NotWritten
    /\ exit_status = Running
    /\ run = 1
    /\ prev = NoPrev
    /\ IdleParse
    /\ IdleSampler

\* main up to the loop: the usage exit, the "No images found" exit, or on to
\* the first file.
Start ==
    /\ pc = "start"
    /\ IF ~usable \/ image_files = <<>>
       THEN /\ exit_status' = 1
            /\ pc' = "done"
            /\ UNCHANGED idx
       ELSE /\ pc' = "open"
            /\ idx' = 1
            /\ UNCHANGED exit_status
    /\ all_analyses' = <<>>
    /\ UNCHANGED <<usable, image_files, handles, report, godot_data, run, prev,
                   parseVars, samplerVars>>

NextPc_StopOnError(outcome, i, n) ==
    IF outcome = "ok" /\ i < n THEN "open" ELSE "check"

\* Where the for loop goes after file i of n, whatever became of it: the
\* except clause and the None check both fall through to the next file.
NextPc(outcome, i, n) == IF i < n THEN "open" ELSE "check"

\* The start of one iteration: analyze_image's Image.open.  When it raises,
\* main's except clause reports the file and the loop goes on.
OpenImage ==
    /\ pc = "open"
    /\ IF image_files[idx].decodable
       THEN /\ handles' = handles \cup {idx}
            /\ pc' = "opened"
            /\ UNCHANGED idx
       ELSE /\ pc' = NextPc("raised", idx, Len(image_files))
            /\ idx' = idx + 1
            /\ UNCHANGED handles
    /\ UNCHANGED <<usable, image_files, all_analyses, report, godot_data,
                   exit_status, run, prev, parseVars, samplerVars>>

\* The rest of the iteration: analyze_image after Image.open, and main's
\* append of an analysis that is not None.
AnalyzeOpened ==
    /\ pc = "opened"
    /\ LET r == analyze_image(image_files[idx]) IN
       /\ all_analyses' = IF r.outcome = "ok"
                          THEN Append(all_analyses, r.analysis)
                          ELSE all_analyses
       /\ handles' = IF r.closed THEN handles \ {idx} ELSE handles
       /\ pc' = NextPc(r.outcome, idx, Len(image_files))
    /\ idx' = idx + 1
    /\ UNCHANGED <<usable, image_files, report, godot_data, exit_status, run,
                   prev, parseVars, samplerVars>>

\* An image object that analyze_image returned without closing is no longer
\* referenced; its file is closed whenever the runtime finalizes it, which
\* the language leaves to the implementation.
Finalize ==
    /\ \E h \in handles :
          /\ pc = "opened" => h # idx
          /\ handles' = handles \ {h}
    /\ UNCHANGED <<usable, image_files, pc, idx, all_analyses, report,
                   godot_data, exit_status, run, prev, parseVars, samplerVars>>

CheckAnalyses_NoGuard ==
    /\ pc = "check"
    /\ pc' = "report"
    /\ UNCHANGED <<usable, image_files, idx, all_analyses, handles, report,
                   godot_data, exit_status, run, prev, parseVars, samplerVars>>

\* After the loop: exit with status 1 when nothing was analyzed.
CheckAnalyses ==
    /\ pc = "check"
    /\ IF all_analyses = <<>>
       THEN exit_status' = 1 /\ pc' = "done"
       ELSE pc' = "report" /\ UNCHANGED exit_status
    /\ UNCHANGED <<usable, image_files, idx, all_analyses, handles, report,
                   godot_data, run, prev, parseVars, samplerVars>>

\* generate_report: both files are written; main then returns.
GenerateReport ==
    /\ pc = "report"
    /\ \E orientations \in OrientationLists(all_analyses) :
          report' = ReportOf(all_analyses, orientations)
    /\ godot_data' = GodotDataOf(all_analyses)
    /\ exit_status' = 0
    /\ pc' = "done"
    /\ UNCHANGED <<usable, image_files, idx, all_analyses, handles, run, prev,
                   parseVars, samplerVars>>

\* The tool is started again on the same, unchanged input; the first run's
\* process is gone and its outputs are kept for comparison.
Rerun ==
    /\ pc = "done"
    /\ run = 1
    /\ prev' = [started |-> TRUE, report |-> report, godot_data |-> godot_data,
                exit_status |-> exit_status]
    /\ run' = 2
    /\ pc' = "start"
    /\ idx' = 0
    /\ all_analyses' = <<>>
    /\ handles' = {}
    /\ report' = NotWritten
    /\ godot_data' = NotWritten
    /\ exit_status' = Running
    /\ UNCHANGED <<usable, image_files, parseVars, samplerVars>>

Next ==
    \/ Start
    \/ OpenImage
    \/ AnalyzeOpened
    \/ Finalize
    \/ CheckAnalyses
    \/ GenerateReport
    \/ Rerun

Spec == Init /\ [][Next]_vars

-----------------------------------------------------------------------------
(* Claims about a run (Spec).                                              *)

\* The orientation letters in alphabetical order
Alphabetical == <<"E", "N", "S", "U", "W">>

Rank(letter) == CHOOSE k \in 1..5 : Alphabetical[k] = letter

\* a comes no later than b by (orientation letter, hour number)
InOrder(a, b) ==
    \/ Rank(a.orientation) < Rank(b.orientation)
    \/ a.orientation = b.orientation /\ a.hour <= b.hour

Count(seq, a) == Cardinality({k \in 1..Len(seq) : seq[k] = a})

IsPermutation(s, t) ==
    /\ Len(s) = Len(t)
    /\ \A k \in 1..Len(s) : Count(s, s[k]) = Count(t, s[k])

FileNamesOf(analyses) == [k \in 1..Len(analyses) |-> analyses[k].filename]

\* C2: the report's 'analyses' is a permutation of the input analyses that
\* is ascending by (orientation letter, hour number), whatever the input
\* order.
C2_AnalysesSorted ==
    report.written =>
        /\ IsPermutation(report.analyses, all_analyses)
        /\ \A i, j \in 1..Len(report.analyses) :
              i < j => InOrder(report.analyses[i], report.analyses[j])

\* [N06, E12, E01] has come out as [E01, E12, N06]
C2_Witness ==
    /\ report.written
    /\ image_files = <<FileN06, FileE12, FileE01>>
    /\ FileNamesOf(report.analyses) = <<FileE01.name, FileE12.name, FileN06.name>>

\* C3: a second run over the same input files with the same images writes
\* the same full report and the same reduced export as the first, every
\* sequence in them in the same order.
C3_TwoRunsIdentical ==
    (run = 2 /\ pc = "done") =>
        /\ report = prev.report
        /\ godot_data = prev.godot_data

\* The input file is one that parses and analyses: it decodes, its stem is a
\* letter and an hour the parser accepts, and its pixels are tuples.
Analysable(file) ==
    /\ file.decodable
    /\ parse_orientation_hour_from_filename(file.name) # NoMatch
    /\ file.img.mode # "L"

\* C4: when the input list is empty, or no input file yields an analysis, the
\* run ends with a non-zero exit status and writes neither output file.
C4_NothingAnalysedIsFatal ==
    (\A k \in 1..Len(image_files) : ~Analysable(image_files[k])) =>
        /\ report = NotWritten
        /\ godot_data = NotWritten
        /\ pc \notin {"report"}
        /\ pc = "done" => exit_status \notin {0, Running}

C4_Witness ==
    /\ pc = "done"
    /\ image_files = <<FileX99, FileW00, FileS23>>
    /\ exit_status = 1
    /\ report = NotWritten
    /\ godot_data = NotWritten

\* C5: a file that does not parse or whose analysis raises is left out and
\* the loop goes on: at the end of the loop every file has been visited and
\* all_analyses holds one analysis for each file that parsed and analysed,
\* in input order.
C5_BadFilesAreSkipped ==
    pc = "check" =>
        LET good == SelectSeq(image_files, Analysable) IN
        /\ idx = Len(image_files) + 1
        /\ all_analyses = [k \in 1..Len(good) |-> analyze_image(good[k]).analysis]

C5_Witness ==
    /\ pc = "check"
    /\ image_files = <<FileW00, FileX99, FileE12>>
    /\ FileNamesOf(all_analyses) = <<FileE12.name>>

\* The export's color names and the zones they come from
ExportColors ==
    <<  <<"zenith", "zenith">>, <<"upper", "upper_sky">>, <<"middle", "mid_sky">>,
        <<"lower", "lower_sky">>, <<"horizon", "horizon">>, <<"water", "water_line">>  >>

\* C6: the reduced export has one entry per analysis, in the order of the
\* sorted 'analyses'; each entry has that analysis's orientation, hour, time
\* "HH:00" and normalized brightness, and its six colors are the
\* normalized-float triples of the six zones, an empty record standing for a
\* zone the analysis lacks.
C6_ExportEntries ==
    godot_data.written =>
        /\ report.written
        /\ Len(godot_data.entries) = Len(report.analyses)
        /\ \A k \in 1..Len(godot_data.entries) :
              LET e == godot_data.entries[k]
                  a == report.analyses[k]
              IN  /\ e.orientation = a.orientation
                  /\ e.hour = a.hour
                  /\ e.time = <<DigitChars[(a.hour \div 10) + 1],
                                DigitChars[(a.hour % 10) + 1], ":", "0", "0">>
                  /\ e.brightness = a.brightness.normalized
                  /\ DOMAIN e.colors = {ExportColors[c][1] : c \in 1..6}
                  /\ \A c \in 1..6 :
                        e.colors[ExportColors[c][1]] =
                            IF ExportColors[c][2] \in DOMAIN a.sky_zones
                            THEN rgb_to_godot(a.sky_zones[ExportColors[c][2]].rgb.r,
                                              a.sky_zones[ExportColors[c][2]].rgb.g,
                                              a.sky_zones[ExportColors[c][2]].rgb.b)
                            ELSE EmptyRecord

\* An export with an entry whose six colors differ and one whose zones are
\* all missing
C6_Witness ==
    /\ godot_data.written
    /\ Len(godot_data.entries) = 2
    /\ godot_data.entries[1].time = <<"0", "6", ":", "0", "0">>
    /\ godot_data.entries[1].colors.upper # godot_data.entries[1].colors.middle
    /\ godot_data.entries[1].colors.zenith # EmptyRecord
    /\ godot_data.entries[2].colors.zenith = EmptyRecord
    /\ godot_data.entries[2].colors.water = EmptyRecord

\* C9: each image handle is released before the next file's image is
\* opened: at most one is open at any moment, and none when the reports are
\* written.
C9_OneHandleAtATime ==
    /\ Cardinality(handles) <= 1
    /\ report.written => handles = {}

=============================================================================
